---- MODULE Spec2Model ----
\* Client-side Tic-Tac-Toe game-state controller (TicTacToeAreaController):
\* the snapshot it holds, the views it derives from the snapshot, the
\* notifications it emits when a snapshot is applied, and the move request it
\* hands to the transport; the presentation components that observe it
\* (TicTacToeBoard, TicTacToeArea) and the Leaderboard.
EXTENDS Integers, Sequences, FiniteSets, TLC

VARIABLES
    model,          \* this._model.game: the held snapshot
    instanceID,     \* this._instanceID: the held session identifier
    joinPending,    \* JoinGame commands awaiting the transport's answer
    lastOp,         \* the handler that ran last
    lastArgs,       \* <<row, col>> when the last handler was makeMove, else <<>>
    lastSnapshot,   \* the model given to the constructor or the last _updateFrom
    result,         \* how the last handler ended: "ok" or the error thrown
    sent,           \* commands handed to the transport by the last handler
    emitted,        \* notifications emitted by the last handler, in order
    lastController, \* the controller (1 or 2) the last handler ran on
    otherModel,     \* the snapshot held by the second area's controller
    otherInstanceID, \* the session identifier held by the second controller
    listeners,      \* per controller, the listeners registered, in order
    ticTacToeBoard, \* the TicTacToeBoard component instance
    ticTacToeArea,  \* the TicTacToeArea component instance
    orphaned,       \* requests in flight whose issuing instance has unmounted
    toasts,         \* toasts shown by the last handler, in order
    clicked,        \* the cell whose click the last handler served, else <<>>
    results,        \* the results the Leaderboard was last rendered with
    sortedStats     \* the rows the Leaderboard last rendered, top first

\* The second controller, the presentation components and the leaderboard
presentationVars == <<lastController, otherModel, otherInstanceID, listeners,
                      ticTacToeBoard, ticTacToeArea, orphaned, toasts,
                      clicked, results, sortedStats>>

vars == <<model, instanceID, joinPending, lastOp, lastArgs, lastSnapshot,
          result, sent, emitted, lastController, otherModel, otherInstanceID,
          listeners, ticTacToeBoard, ticTacToeArea, orphaned, toasts,
          clicked, results, sortedStats>>

----------------------------------------------------------------------------
\* Bounds of the model

MaxMoves == 2       \* longest move list carried by a snapshot
MaxPending == 1     \* most JoinGame commands in flight at once
MaxResults == 2     \* most results the Leaderboard is rendered with
MaxHistory == 3     \* longest move list of a conflicting history
MaxInFlight == 2    \* most GameMove commands in flight at once

----------------------------------------------------------------------------
\* Values

PLAYER_NOT_IN_GAME_ERROR == "Player is not in game"

NO_GAME_IN_PROGRESS_ERROR == "No game in progress"

Undefined == "undefined"

Positions == 0..2

Pieces == {"X", "O"}

TicTacToeCell == Pieces \cup {Undefined}

GameStatus == {"WAITING_TO_START", "IN_PROGRESS", "OVER"}

OurPlayer == "us"

PlayerIDs == {"us", "p1"}

GameIDs == {"g1", "g2"}

SeatIDs == PlayerIDs \cup {Undefined}

\* The cells that the snapshots' moves and the viewer's move requests target
MoveCells == { <<0, 1>>, <<1, 2>> }

\* The authority alternates the pieces, X first
PieceAt(i) == IF i % 2 = 1 THEN "X" ELSE "O"

\* Move histories as the authority sends them; a cell may be targeted twice
MoveLists ==
    UNION { { [i \in 1..n |-> [gamePiece |-> PieceAt(i), row |-> cells[i][1],
                               col |-> cells[i][2]]] :
                cells \in [1..n -> MoveCells] } : n \in 0..MaxMoves }

\* game === undefined
NoGame ==
    [hasGame |-> FALSE, status |-> "WAITING_TO_START", x |-> Undefined,
     o |-> Undefined, moves |-> <<>>, winner |-> Undefined]

\* A game's seats are held by different players, it has no moves before it
\* starts, and a winner is recorded only once it is over and is one of the
\* seated players
WellFormed(m) ==
    /\ (m.x # Undefined => m.x # m.o)
    /\ (m.status = "WAITING_TO_START" => m.moves = <<>>)
    /\ (m.winner # Undefined => m.status = "OVER" /\ m.winner \in {m.x, m.o})

\* The snapshots the transport may push: no game, or a well-formed game
PushedSnapshots ==
    {NoGame} \cup
    { m \in [hasGame : {TRUE}, status : GameStatus, x : SeatIDs, o : SeatIDs,
             moves : MoveLists, winner : SeatIDs] : WellFormed(m) }

----------------------------------------------------------------------------
\* Derived views (getters), each computed from a snapshot m

\* get board: replay moves[from..] onto board b in list order
RECURSIVE ReplayMoves(_, _, _)
ReplayMoves(b, moves, i) ==
    IF i > Len(moves) THEN b
    ELSE LET currMove == moves[i]
         IN ReplayMoves(
                [b EXCEPT ![currMove.row][currMove.col] = currMove.gamePiece],
                moves, i + 1)

EmptyBoard == [r \in Positions |-> [c \in Positions |-> Undefined]]

Moves(m) == IF m.hasGame THEN m.moves ELSE <<>>

\* Variant: the moves are replayed last to first
Board_ReplaysBackwards(m) ==
    ReplayMoves(EmptyBoard,
                [i \in 1..Len(Moves(m)) |-> Moves(m)[Len(Moves(m)) + 1 - i]], 1)

\* Variant: the replay loop starts at the second move
Board_SkipsFirstMove(m) == ReplayMoves(EmptyBoard, Moves(m), 2)

Board(m) == ReplayMoves(EmptyBoard, Moves(m), 1)

\* The players of the game, as the base controller keeps them
Players(m) ==
    IF m.hasGame
    THEN (IF m.x # Undefined THEN <<m.x>> ELSE <<>>) \o
         (IF m.o # Undefined THEN <<m.o>> ELSE <<>>)
    ELSE <<>>

\* Array.prototype.find: the first element of seq from index i on that is
\* among the elements the predicate accepts, or undefined
RECURSIVE FindFrom(_, _, _)
FindFrom(seq, accepted, i) ==
    IF i > Len(seq) THEN Undefined
    ELSE IF seq[i] \in accepted THEN seq[i]
    ELSE FindFrom(seq, accepted, i + 1)

X(m) == FindFrom(Players(m), { player \in PlayerIDs : m.hasGame /\ m.x = player }, 1)

O(m) == FindFrom(Players(m), { player \in PlayerIDs : m.hasGame /\ m.o = player }, 1)

MoveCount(m) == Len(Moves(m))

Winner(m) ==
    FindFrom(Players(m), { player \in PlayerIDs : m.hasGame /\ m.winner = player }, 1)

\* Variant: the parity test is inverted
WhoseTurn_ParityInverted(m) ==
    IF m.hasGame /\ m.status = "IN_PROGRESS"
    THEN FindFrom(Players(m),
                  { player \in PlayerIDs :
                      \/ MoveCount(m) % 2 # 0 /\ m.x # Undefined /\ player = m.x
                      \/ MoveCount(m) % 2 = 0 /\ m.o # Undefined /\ player = m.o },
                  1)
    ELSE Undefined

WhoseTurn(m) ==
    IF m.hasGame /\ m.status = "IN_PROGRESS"
    THEN FindFrom(Players(m),
                  { player \in PlayerIDs :
                      \/ MoveCount(m) % 2 = 0 /\ m.x # Undefined /\ player = m.x
                      \/ MoveCount(m) % 2 # 0 /\ m.o # Undefined /\ player = m.o },
                  1)
    ELSE Undefined

\* Variant: the status is not looked at
IsOurTurn_IgnoresStatus(m) ==
    m.hasGame /\ OurPlayer = (IF MoveCount(m) % 2 = 0 THEN X(m) ELSE O(m))

\* Variant: the viewer is compared with both players, not with whoseTurn
IsOurTurn_AnySeat(m) ==
    IF ~m.hasGame \/ m.status # "IN_PROGRESS" THEN FALSE
    ELSE OurPlayer \in {X(m), O(m)}

IsOurTurn(m) ==
    IF ~m.hasGame \/ m.status # "IN_PROGRESS" THEN FALSE
    ELSE OurPlayer = WhoseTurn(m)

\* Variant: any player at all makes the viewer a player
IsPlayer_AnyPlayer(m) == Len(Players(m)) > 0

IsPlayer(m) == \E i \in 1..Len(Players(m)) : Players(m)[i] = OurPlayer

\* Variant: the isPlayer check is missing, so the getter never throws
GamePiece_NeverThrows(m) == IF OurPlayer = X(m) THEN "X" ELSE "O"

\* Variant: a seated viewer is always given X
GamePiece_AlwaysX(m) ==
    IF ~IsPlayer(m) THEN PLAYER_NOT_IN_GAME_ERROR ELSE "X"

\* get gamePiece: the piece, or the error it throws
GamePiece(m) ==
    IF ~IsPlayer(m) THEN PLAYER_NOT_IN_GAME_ERROR
    ELSE IF OurPlayer = X(m) THEN "X" ELSE "O"

\* Variant: without a game the default is OVER
Status_DefaultsToOver(m) == IF m.hasGame THEN m.status ELSE "OVER"

Status(m) == IF m.hasGame THEN m.status ELSE "WAITING_TO_START"

IsActive(m) == IF Status(m) = "IN_PROGRESS" THEN TRUE ELSE FALSE

\* Variant: the comparison stops after the first row
AreBoardEqual_FirstRowOnly(board1, board2) ==
    \A j \in 0..2 : board1[0][j] = board2[0][j]

AreBoardEqual(board1, board2) ==
    \A i \in 0..2 : \A j \in 0..2 : board1[i][j] = board2[i][j]

----------------------------------------------------------------------------
\* Handlers

\* GameAreaController._updateFrom: replaces the held snapshot wholesale and
\* emits gameUpdated, then gameEnd when the game went from IN_PROGRESS to OVER
SuperUpdateFrom(old, newModel) ==
    [model   |-> newModel,
     emitted |-> <<[name |-> "gameUpdated", payload |-> Undefined]>> \o
                 (IF Status(old) = "IN_PROGRESS" /\ Status(newModel) = "OVER"
                  THEN <<[name |-> "gameEnd", payload |-> Undefined]>>
                  ELSE <<>>)]

\* Variant: a snapshot with fewer moves than the held one is dropped
SuperCallArgument_DropsStale(current, newModel) ==
    IF MoveCount(newModel) < MoveCount(current) THEN current ELSE newModel

\* The model _updateFrom hands to the base controller: its own argument
SuperCallArgument(current, newModel) == newModel

\* boardChanged, carrying the new board, when the boards differ in some cell
BoardChangedEvents(oldBoard, newBoard) ==
    LET hasBoardChanged == ~AreBoardEqual(oldBoard, newBoard)
    IN IF hasBoardChanged
       THEN <<[name |-> "boardChanged", payload |-> newBoard]>>
       ELSE <<>>

\* Variant: turnChanged is emitted whenever it is our turn after the update
TurnChangedEvents_WheneverOurTurn(oldIsOurTurn, newIsOurTurn) ==
    IF newIsOurTurn
    THEN <<[name |-> "turnChanged", payload |-> newIsOurTurn]>>
    ELSE <<>>

\* Variant: turnChanged carries the value captured before the update
TurnChangedEvents_OldPayload(oldIsOurTurn, newIsOurTurn) ==
    IF oldIsOurTurn # newIsOurTurn
    THEN <<[name |-> "turnChanged", payload |-> oldIsOurTurn]>>
    ELSE <<>>

\* turnChanged, carrying the new value, when isOurTurn differs
TurnChangedEvents(oldIsOurTurn, newIsOurTurn) ==
    IF oldIsOurTurn # newIsOurTurn
    THEN <<[name |-> "turnChanged", payload |-> newIsOurTurn]>>
    ELSE <<>>

\* TicTacToeAreaController._updateFrom(newModel)
UpdateFrom(newModel) ==
    LET oldBoard == Board(model)
        oldIsOurTurn == IsOurTurn(model)
        super == SuperUpdateFrom(model, SuperCallArgument(model, newModel))
    IN /\ model' = super.model
       /\ emitted' = super.emitted \o
                     BoardChangedEvents(oldBoard, Board(super.model)) \o
                     TurnChangedEvents(oldIsOurTurn, IsOurTurn(super.model))
       /\ lastOp' = "updateFrom"
       /\ lastSnapshot' = newModel
       /\ result' = "ok"
       /\ sent' = <<>>
       /\ lastArgs' = <<>>
       /\ UNCHANGED <<instanceID, joinPending>>

\* `this.isActive` in makeMove's first check is the method itself, not a call
\* of it: a function object, which is truthy whatever the status
IsActiveMember == TRUE

\* makeMove(row, col) up to the point where it awaits the transport: the error
\* it throws or the command it hands over
MakeMoveOutcome(m, id, row, col) ==
    IF ~IsActiveMember
    THEN [result |-> NO_GAME_IN_PROGRESS_ERROR, sent |-> <<>>]
    ELSE IF id = Undefined
    THEN [result |-> NO_GAME_IN_PROGRESS_ERROR, sent |-> <<>>]
    ELSE IF GamePiece(m) = PLAYER_NOT_IN_GAME_ERROR
    THEN [result |-> PLAYER_NOT_IN_GAME_ERROR, sent |-> <<>>]
    ELSE [result |-> "ok",
          sent |-> <<[type |-> "GameMove", gameID |-> id,
                      move |-> [gamePiece |-> GamePiece(m), row |-> row,
                                col |-> col]]>>]

\* Variant: a move handed to the transport is also written into the held
\* snapshot
MakeMove_Optimistic(row, col) ==
    LET outcome == MakeMoveOutcome(model, instanceID, row, col)
    IN /\ lastOp' = "makeMove"
       /\ lastArgs' = <<row, col>>
       /\ result' = outcome.result
       /\ sent' = outcome.sent
       /\ emitted' = <<>>
       /\ model' = IF outcome.result = "ok"
                   THEN [model EXCEPT !.moves = Append(@, outcome.sent[1].move)]
                   ELSE model
       /\ UNCHANGED <<instanceID, joinPending, lastSnapshot>>

\* Variant: a call that follows an unanswered call is refused
MakeMove_Serialized(row, col) ==
    LET busy == lastOp = "makeMove" /\ result = "ok"
        outcome == MakeMoveOutcome(model, instanceID, row, col)
    IN /\ lastOp' = "makeMove"
       /\ lastArgs' = <<row, col>>
       /\ result' = IF busy THEN NO_GAME_IN_PROGRESS_ERROR ELSE outcome.result
       /\ sent' = IF busy THEN <<>> ELSE outcome.sent
       /\ emitted' = <<>>
       /\ UNCHANGED <<model, instanceID, joinPending, lastSnapshot>>

MakeMove(row, col) ==
    LET outcome == MakeMoveOutcome(model, instanceID, row, col)
    IN /\ lastOp' = "makeMove"
       /\ lastArgs' = <<row, col>>
       /\ result' = outcome.result
       /\ sent' = outcome.sent
       /\ emitted' = <<>>
       /\ UNCHANGED <<model, instanceID, joinPending, lastSnapshot>>

\* joinGame() up to the point where it awaits the transport
JoinGame ==
    /\ joinPending < MaxPending
    /\ joinPending' = joinPending + 1
    /\ lastOp' = "joinGame"
    /\ result' = "ok"
    /\ sent' = <<[type |-> "JoinGame"]>>
    /\ emitted' = <<>>
    /\ lastArgs' = <<>>
    /\ UNCHANGED <<model, instanceID, lastSnapshot>>

\* The transport acknowledges a JoinGame command with a session identifier,
\* which joinGame stores
JoinAcknowledged(gameID) ==
    /\ joinPending > 0
    /\ joinPending' = joinPending - 1
    /\ instanceID' = gameID
    /\ lastOp' = "joinAcknowledged"
    /\ result' = "ok"
    /\ sent' = <<>>
    /\ emitted' = <<>>
    /\ lastArgs' = <<>>
    /\ UNCHANGED <<model, lastSnapshot>>

\* The transport rejects a JoinGame command: joinGame throws, nothing is stored
JoinRejected ==
    /\ joinPending > 0
    /\ joinPending' = joinPending - 1
    /\ lastOp' = "joinRejected"
    /\ result' = "rejected"
    /\ sent' = <<>>
    /\ emitted' = <<>>
    /\ lastArgs' = <<>>
    /\ UNCHANGED <<model, instanceID, lastSnapshot>>

----------------------------------------------------------------------------
\* The two controllers a presentation component may be given: controller 1 is
\* the controller above, controller 2 the controller of a second area

Controllers == {1, 2}

ModelOf(c) == IF c = 1 THEN model ELSE otherModel

InstanceIDOf(c) == IF c = 1 THEN instanceID ELSE otherInstanceID

\* The message of the error a rejected command is thrown with
TRANSPORT_ERROR == "rejected"

\* _updateFrom(newModel) run by the second controller
OtherUpdateFrom(newModel) ==
    LET oldBoard == Board(otherModel)
        oldIsOurTurn == IsOurTurn(otherModel)
        super == SuperUpdateFrom(otherModel, SuperCallArgument(otherModel, newModel))
    IN /\ otherModel' = super.model
       /\ emitted' = super.emitted \o
                     BoardChangedEvents(oldBoard, Board(super.model)) \o
                     TurnChangedEvents(oldIsOurTurn, IsOurTurn(super.model))
       /\ lastOp' = "updateFrom"
       /\ result' = "ok"
       /\ sent' = <<>>
       /\ lastArgs' = <<>>
       /\ UNCHANGED <<model, instanceID, joinPending, lastSnapshot, otherInstanceID>>

----------------------------------------------------------------------------
\* Listener registration (EventEmitter)

\* A registered listener: the component whose effect created it, the event it
\* is registered for, and the `winner` its closure captured (handleGameEnd)
Listener(component, event, winner) ==
    [component |-> component, event |-> event, winner |-> winner]

\* addListener: appended to the controller's listeners
AddListener(ls, l) == Append(ls, l)

\* The last index of ls from i downward that holds l, or 0
RECURSIVE LastIndexOf(_, _, _)
LastIndexOf(ls, l, i) ==
    IF i = 0 THEN 0
    ELSE IF ls[i] = l THEN i
    ELSE LastIndexOf(ls, l, i - 1)

\* removeListener: removes the most recently added instance of l, if any
RemoveListener(ls, l) ==
    LET at == LastIndexOf(ls, l, Len(ls))
    IN IF at = 0 THEN ls
       ELSE SubSeq(ls, 1, at - 1) \o SubSeq(ls, at + 1, Len(ls))

\* toast({description, status})
Toast(description, status) == [description |-> description, status |-> status]

----------------------------------------------------------------------------
\* TicTacToeBoard: local state and listeners.  A state setter called after the
\* instance has unmounted is dropped by React.

\* The two sources of the component
BoardSources == {"TicTacToeBoard.tsx", "TicTacToeArea.tsx"}

\* No instance of the board component is mounted
BoardUnmounted(source, effect) ==
    [mounted |-> FALSE, gameAreaController |-> 1, gameBoard |-> EmptyBoard,
     gameIsOurTurn |-> FALSE, moving |-> 0, source |-> source,
     effect |-> effect]

\* TicTacToeBoard.tsx: boardChangeListener refreshes both local values
BoardChangeListener(b, m) ==
    IF b.mounted
    THEN [b EXCEPT !.gameBoard = Board(m), !.gameIsOurTurn = IsOurTurn(m)]
    ELSE b

\* TicTacToeBoard.tsx: turnChangeListener refreshes both local values
TurnChangeListener(b, m) ==
    IF b.mounted
    THEN [b EXCEPT !.gameBoard = Board(m), !.gameIsOurTurn = IsOurTurn(m)]
    ELSE b

\* TicTacToeArea.tsx: handleBoardUpdate refreshes the local board
HandleBoardUpdate(b, m) ==
    IF b.mounted THEN [b EXCEPT !.gameBoard = Board(m)] ELSE b

\* TicTacToeArea.tsx: handleTurnUpdate refreshes the local turn flag
HandleTurnUpdate(b, m) ==
    IF b.mounted THEN [b EXCEPT !.gameIsOurTurn = IsOurTurn(m)] ELSE b

\* The board component's listener for `event`, run when its controller holds m
BoardListener(event, b, m) ==
    IF b.source = "TicTacToeBoard.tsx"
    THEN (IF event = "boardChanged" THEN BoardChangeListener(b, m)
          ELSE TurnChangeListener(b, m))
    ELSE (IF event = "boardChanged" THEN HandleBoardUpdate(b, m)
          ELSE HandleTurnUpdate(b, m))

----------------------------------------------------------------------------
\* TicTacToeArea: local state and listeners

\* The occupants of the area, as the base controller keeps them
Occupants == <<"us", "p1">>

\* get observers: the occupants from index i on that are not players
RECURSIVE ObserversFrom(_, _)
ObserversFrom(m, i) ==
    IF i > Len(Occupants) THEN <<>>
    ELSE (IF \E k \in 1..Len(Players(m)) : Players(m)[k] = Occupants[i]
          THEN <<>> ELSE <<Occupants[i]>>) \o ObserversFrom(m, i + 1)

Observers(m) == ObserversFrom(m, 1)

\* get history: the results the area's model carries, here the result of the
\* snapshot's game once it is over, each seated player mapped to a score
History(m) ==
    IF m.hasGame /\ m.status = "OVER"
    THEN << [k \in 1..Len(Players(m)) |->
                [player |-> Players(m)[k],
                 score |-> IF m.winner = Players(m)[k] THEN 1 ELSE 0]] >>
    ELSE <<>>

\* Variant: setWinner is missing from the batch
HandleGameUpdate_KeepsWinner(a, m) ==
    IF a.mounted
    THEN [a EXCEPT !.display =
              [xPlayer |-> X(m), oPlayer |-> O(m), moveCount |-> MoveCount(m),
               winner |-> a.display.winner, whoseTurn |-> WhoseTurn(m),
               isPlayer |-> IsPlayer(m), status |-> Status(m),
               history |-> History(m), observers |-> Observers(m)]]
    ELSE a

\* The display values the Area keeps of the snapshot m of its controller
AreaDisplay(m) ==
    [history |-> History(m), observers |-> Observers(m),
     xPlayer |-> X(m), oPlayer |-> O(m), moveCount |-> MoveCount(m),
     winner |-> Winner(m), whoseTurn |-> WhoseTurn(m),
     isPlayer |-> IsPlayer(m), status |-> Status(m)]

\* No effect of the instance is in force
NoEffect == [installed |-> FALSE, gameAreaController |-> 1, winner |-> Undefined]

\* No instance of the Area is mounted
AreaUnmounted(effect) ==
    [mounted |-> FALSE, gameAreaController |-> 1,
     display |-> AreaDisplay(NoGame), loading |-> FALSE, joining |-> 0,
     effect |-> effect]

\* handleGameUpdate refreshes every display value from the controller
HandleGameUpdate(a, m) ==
    IF a.mounted THEN [a EXCEPT !.display = AreaDisplay(m)] ELSE a

\* handleGameEnd: the toast chosen by the `winner` the listener closed over
HandleGameEnd(winner) ==
    IF winner = Undefined THEN <<Toast("Game ended in a tie", Undefined)>>
    ELSE IF winner = OurPlayer THEN <<Toast("You won!", Undefined)>>
    ELSE <<Toast("You lost :(", Undefined)>>

----------------------------------------------------------------------------
\* Notification delivery.  u is the state the listeners act on: the board and
\* Area instances and the toasts shown so far.

\* One listener called while its controller holds the snapshot m
InvokeListener(l, m, u) ==
    IF l.component = "TicTacToeBoard"
    THEN [u EXCEPT !.board = BoardListener(l.event, @, m)]
    ELSE IF l.event = "gameUpdated"
    THEN [u EXCEPT !.area = HandleGameUpdate(@, m)]
    ELSE [u EXCEPT !.toasts = @ \o HandleGameEnd(l.winner)]

\* emit(name): the listeners registered for the event, in registration order
RECURSIVE InvokeAll(_, _, _, _, _)
InvokeAll(ls, name, m, u, i) ==
    IF i > Len(ls) THEN u
    ELSE InvokeAll(ls, name, m,
                   IF ls[i].event = name THEN InvokeListener(ls[i], m, u) ELSE u,
                   i + 1)

\* The events of one _updateFrom, emitted in order after the model was replaced
RECURSIVE Deliver(_, _, _, _, _)
Deliver(events, ls, m, u, k) ==
    IF k > Len(events) THEN u
    ELSE Deliver(events, ls, m, InvokeAll(ls, events[k].name, m, u, 1), k + 1)

\* Variant: the notifications are emitted before the snapshot is replaced
ModelDuringEmit_BeforeReplacement(held, replaced) == held

\* The snapshot a getter reads while boardChanged or turnChanged is emitted:
\* super._updateFrom has replaced the held one before either emit
ModelDuringEmit(held, replaced) == replaced

\* A snapshot pushed to controller c: _updateFrom and the listeners it calls
SnapshotPushed(c, newModel) ==
    /\ lastController' = c
    /\ IF c = 1
       THEN UpdateFrom(newModel) /\ UNCHANGED <<otherModel, otherInstanceID>>
       ELSE OtherUpdateFrom(newModel)
    /\ LET u == Deliver(emitted', listeners[c],
                        ModelDuringEmit(ModelOf(c),
                                        IF c = 1 THEN model' ELSE otherModel'),
                        [board |-> ticTacToeBoard, area |-> ticTacToeArea,
                         toasts |-> <<>>], 1)
       IN /\ ticTacToeBoard' = u.board
          /\ ticTacToeArea' = u.area
          /\ toasts' = u.toasts
          /\ clicked' = <<>>
    /\ UNCHANGED <<listeners, orphaned, results, sortedStats>>

----------------------------------------------------------------------------
\* Steps of the presentation layer

\* No request of an unmounted instance is in flight
NoOrphans == [moves |-> 0, joins |-> [c \in Controllers |-> 0]]

\* A step that runs no controller method on behalf of controller c
PresentationStep(op, c) ==
    /\ lastOp' = op
    /\ lastController' = c
    /\ lastArgs' = <<>>
    /\ result' = "ok"
    /\ sent' = <<>>
    /\ emitted' = <<>>
    /\ UNCHANGED <<model, instanceID, joinPending, lastSnapshot, otherModel,
                   otherInstanceID>>

----------------------------------------------------------------------------
\* TicTacToeArea: lifecycle and the join button

\* The first render: every display value is seeded from the controller; the
\* effect that installs the listeners runs later
MountArea(c) ==
    /\ ~ticTacToeArea.mounted
    /\ ~ticTacToeArea.effect.installed
    /\ ticTacToeArea' =
           [mounted |-> TRUE, gameAreaController |-> c,
            display |-> AreaDisplay(ModelOf(c)), loading |-> FALSE,
            joining |-> 0, effect |-> NoEffect]
    /\ toasts' = <<>>
    /\ clicked' = <<>>
    /\ PresentationStep("mountArea", c)
    /\ UNCHANGED <<listeners, ticTacToeBoard, orphaned, results, sortedStats>>

\* The dependencies of the Area's effect as of the last render:
\* [gameAreaController, toast, winner, ourPlayer]
AreaEffectDeps(a) ==
    [installed |-> TRUE, gameAreaController |-> a.gameAreaController,
     winner |-> a.display.winner]

\* The last render left an effect to run, or an unmount left a cleanup to run
AreaEffectPending(a) ==
    IF a.mounted THEN a.effect # AreaEffectDeps(a) ELSE a.effect.installed

\* Variant: the cleanup leaves the gameEnd listener registered
AreaCleanup_KeepsGameEnd(ls, effect) ==
    IF effect.installed
    THEN [ls EXCEPT ![effect.gameAreaController] =
              RemoveListener(@, Listener("TicTacToeArea", "gameUpdated", Undefined))]
    ELSE ls

\* The cleanup of the effect in force: both listeners are removed from the
\* controller they were added to
AreaCleanup(ls, effect) ==
    IF effect.installed
    THEN [ls EXCEPT ![effect.gameAreaController] =
              RemoveListener(
                  RemoveListener(@, Listener("TicTacToeArea", "gameUpdated", Undefined)),
                  Listener("TicTacToeArea", "gameEnd", effect.winner))]
    ELSE ls

\* The effect body: handleGameUpdate and handleGameEnd, the latter closing
\* over the rendered `winner`, are added to the rendered controller
AreaSetup(ls, effect) ==
    [ls EXCEPT ![effect.gameAreaController] =
         AddListener(
             AddListener(@, Listener("TicTacToeArea", "gameUpdated", Undefined)),
             Listener("TicTacToeArea", "gameEnd", effect.winner))]

\* React runs the pending cleanup, then the pending effect
FlushAreaEffects ==
    /\ AreaEffectPending(ticTacToeArea)
    /\ LET cleaned == AreaCleanup(listeners, ticTacToeArea.effect)
       IN IF ticTacToeArea.mounted
          THEN /\ listeners' = AreaSetup(cleaned, AreaEffectDeps(ticTacToeArea))
               /\ ticTacToeArea' =
                      [ticTacToeArea EXCEPT !.effect = AreaEffectDeps(ticTacToeArea)]
          ELSE /\ listeners' = cleaned
               /\ ticTacToeArea' = [ticTacToeArea EXCEPT !.effect = NoEffect]
    /\ toasts' = <<>>
    /\ clicked' = <<>>
    /\ PresentationStep("flushAreaEffects", ticTacToeArea.gameAreaController)
    /\ UNCHANGED <<ticTacToeBoard, orphaned, results, sortedStats>>

\* useInteractableAreaController returns another controller: a re-render with
\* the local state kept
SwapAreaController ==
    /\ ticTacToeArea.mounted
    /\ ticTacToeArea' =
           [ticTacToeArea EXCEPT !.gameAreaController = 3 - @]
    /\ toasts' = <<>>
    /\ clicked' = <<>>
    /\ PresentationStep("swapAreaController", 3 - ticTacToeArea.gameAreaController)
    /\ UNCHANGED <<listeners, ticTacToeBoard, orphaned, results, sortedStats>>

\* The instance unmounts; the cleanup of its effect runs later and a joinGame
\* call it awaits stays in flight
UnmountArea ==
    /\ ticTacToeArea.mounted
    /\ ticTacToeArea' = AreaUnmounted(ticTacToeArea.effect)
    /\ orphaned' =
           IF ticTacToeArea.joining = 0 THEN orphaned
           ELSE [orphaned EXCEPT !.joins[ticTacToeArea.joining] = @ + 1]
    /\ toasts' = <<>>
    /\ clicked' = <<>>
    /\ PresentationStep("unmountArea", ticTacToeArea.gameAreaController)
    /\ UNCHANGED <<listeners, ticTacToeBoard, results, sortedStats>>

\* The render's condition for the join button
JoinButtonShown(a) ==
    /\ a.mounted
    /\ a.display.status = "WAITING_TO_START" \/ a.display.status = "OVER"
    /\ ~a.display.isPlayer

\* JoinGame commands of controller c awaiting the transport's answer
JoinsInFlight(c) ==
    (IF ticTacToeArea.joining = c THEN 1 ELSE 0) + orphaned.joins[c]

\* handleJoinGame up to its await: setLoading(true), then joinGame() on the
\* rendered controller.  A button with isLoading set is disabled.
HandleJoinGame ==
    LET c == ticTacToeArea.gameAreaController
    IN /\ JoinButtonShown(ticTacToeArea)
       /\ ~ticTacToeArea.loading
       /\ JoinsInFlight(c) < MaxPending
       /\ ticTacToeArea' = [ticTacToeArea EXCEPT !.loading = TRUE, !.joining = c]
       /\ IF c = 1 THEN JoinGame
          ELSE /\ lastOp' = "joinGame"
               /\ result' = "ok"
               /\ sent' = <<[type |-> "JoinGame"]>>
               /\ emitted' = <<>>
               /\ lastArgs' = <<>>
               /\ UNCHANGED <<model, instanceID, joinPending, lastSnapshot>>
       /\ lastController' = c
       /\ toasts' = <<>>
       /\ clicked' = <<>>
       /\ UNCHANGED <<otherModel, otherInstanceID, listeners, ticTacToeBoard,
                      orphaned, results, sortedStats>>

\* joinGame() of controller c resumes with the transport's acknowledgment and
\* stores the session identifier
ControllerJoinAcknowledged(c, gameID) ==
    /\ lastController' = c
    /\ IF c = 1 THEN JoinAcknowledged(gameID) /\ UNCHANGED otherInstanceID
       ELSE /\ otherInstanceID' = gameID
            /\ lastOp' = "joinAcknowledged"
            /\ result' = "ok"
            /\ sent' = <<>>
            /\ emitted' = <<>>
            /\ lastArgs' = <<>>
            /\ UNCHANGED <<model, instanceID, joinPending, lastSnapshot>>
    /\ UNCHANGED otherModel

\* joinGame() of controller c resumes with the transport's rejection and throws
ControllerJoinRejected(c) ==
    /\ lastController' = c
    /\ IF c = 1 THEN JoinRejected
       ELSE /\ lastOp' = "joinRejected"
            /\ result' = TRANSPORT_ERROR
            /\ sent' = <<>>
            /\ emitted' = <<>>
            /\ lastArgs' = <<>>
            /\ UNCHANGED <<model, instanceID, joinPending, lastSnapshot>>
    /\ UNCHANGED <<otherModel, otherInstanceID>>

\* Variant: the catch block shows the text it keeps for a thrown non-Error
JoinErrorToast_Unexpected(message) == Toast("An unexpected error occurred.", "error")

\* handleJoinGame's catch: one error toast carrying the error's message
JoinErrorToast(message) == Toast("Error: " \o message, "error")

\* handleJoinGame after its await, the call having succeeded: finally
JoinSucceeded(gameID) ==
    /\ ticTacToeArea.mounted
    /\ ticTacToeArea.joining # 0
    /\ ControllerJoinAcknowledged(ticTacToeArea.joining, gameID)
    /\ ticTacToeArea' = [ticTacToeArea EXCEPT !.loading = FALSE, !.joining = 0]
    /\ toasts' = <<>>
    /\ clicked' = <<>>
    /\ UNCHANGED <<listeners, ticTacToeBoard, orphaned, results, sortedStats>>

\* handleJoinGame after its await, the call having failed: catch, then finally
JoinFailed ==
    /\ ticTacToeArea.mounted
    /\ ticTacToeArea.joining # 0
    /\ ControllerJoinRejected(ticTacToeArea.joining)
    /\ ticTacToeArea' = [ticTacToeArea EXCEPT !.loading = FALSE, !.joining = 0]
    /\ toasts' = <<JoinErrorToast(result')>>
    /\ clicked' = <<>>
    /\ UNCHANGED <<listeners, ticTacToeBoard, orphaned, results, sortedStats>>

\* handleJoinGame of an unmounted instance after its await, the call having
\* succeeded: setLoading(false) is dropped
OrphanedJoinSucceeded(c, gameID) ==
    /\ orphaned.joins[c] > 0
    /\ orphaned' = [orphaned EXCEPT !.joins[c] = @ - 1]
    /\ ControllerJoinAcknowledged(c, gameID)
    /\ toasts' = <<>>
    /\ clicked' = <<>>
    /\ UNCHANGED <<listeners, ticTacToeBoard, ticTacToeArea, results, sortedStats>>

\* handleJoinGame of an unmounted instance after its await, the call having
\* failed: the catch block shows its toast, setLoading(false) is dropped
OrphanedJoinFailed(c) ==
    /\ orphaned.joins[c] > 0
    /\ orphaned' = [orphaned EXCEPT !.joins[c] = @ - 1]
    /\ ControllerJoinRejected(c)
    /\ toasts' = <<JoinErrorToast(result')>>
    /\ clicked' = <<>>
    /\ UNCHANGED <<listeners, ticTacToeBoard, ticTacToeArea, results, sortedStats>>

----------------------------------------------------------------------------
\* TicTacToeBoard: lifecycle and cell clicks

\* The first render: the local board and turn flag are seeded from the
\* controller; the effect that installs the listeners runs later
MountBoard(c) ==
    /\ ~ticTacToeBoard.mounted
    /\ ticTacToeBoard.effect = 0
    /\ ticTacToeBoard' =
           [ticTacToeBoard EXCEPT !.mounted = TRUE, !.gameAreaController = c,
                                  !.gameBoard = Board(ModelOf(c)),
                                  !.gameIsOurTurn = IsOurTurn(ModelOf(c))]
    /\ toasts' = <<>>
    /\ clicked' = <<>>
    /\ PresentationStep("mountBoard", c)
    /\ UNCHANGED <<listeners, ticTacToeArea, orphaned, results, sortedStats>>

\* The last render left an effect to run (dependencies [gameAreaController]),
\* or an unmount left a cleanup to run.  `effect` is the controller the
\* effect in force was run with, 0 when none is in force.
BoardEffectPending(b) ==
    IF b.mounted THEN b.effect # b.gameAreaController ELSE b.effect # 0

\* The cleanup of the effect in force: both listeners are removed from the
\* controller they were added to
BoardCleanup(ls, effect) ==
    IF effect # 0
    THEN [ls EXCEPT ![effect] =
              RemoveListener(
                  RemoveListener(@, Listener("TicTacToeBoard", "boardChanged", Undefined)),
                  Listener("TicTacToeBoard", "turnChanged", Undefined))]
    ELSE ls

\* The effect body: both listeners are added to the rendered controller
BoardSetup(ls, c) ==
    [ls EXCEPT ![c] =
         AddListener(
             AddListener(@, Listener("TicTacToeBoard", "boardChanged", Undefined)),
             Listener("TicTacToeBoard", "turnChanged", Undefined))]

\* React runs the pending cleanup, then the pending effect
FlushBoardEffects ==
    /\ BoardEffectPending(ticTacToeBoard)
    /\ LET cleaned == BoardCleanup(listeners, ticTacToeBoard.effect)
       IN IF ticTacToeBoard.mounted
          THEN /\ listeners' = BoardSetup(cleaned, ticTacToeBoard.gameAreaController)
               /\ ticTacToeBoard' =
                      [ticTacToeBoard EXCEPT !.effect = ticTacToeBoard.gameAreaController]
          ELSE /\ listeners' = cleaned
               /\ ticTacToeBoard' = [ticTacToeBoard EXCEPT !.effect = 0]
    /\ toasts' = <<>>
    /\ clicked' = <<>>
    /\ PresentationStep("flushBoardEffects", ticTacToeBoard.gameAreaController)
    /\ UNCHANGED <<ticTacToeArea, orphaned, results, sortedStats>>

\* The gameAreaController prop changes: a re-render with the local state kept
SwapBoardController ==
    /\ ticTacToeBoard.mounted
    /\ ticTacToeBoard' = [ticTacToeBoard EXCEPT !.gameAreaController = 3 - @]
    /\ toasts' = <<>>
    /\ clicked' = <<>>
    /\ PresentationStep("swapBoardController", 3 - ticTacToeBoard.gameAreaController)
    /\ UNCHANGED <<listeners, ticTacToeArea, orphaned, results, sortedStats>>

\* The instance unmounts; the cleanup of its effect runs later and the
\* makeMove calls it awaits stay in flight
UnmountBoard ==
    /\ ticTacToeBoard.mounted
    /\ ticTacToeBoard' = BoardUnmounted(ticTacToeBoard.source, ticTacToeBoard.effect)
    /\ orphaned' = [orphaned EXCEPT !.moves = @ + ticTacToeBoard.moving]
    /\ toasts' = <<>>
    /\ clicked' = <<>>
    /\ PresentationStep("unmountBoard", ticTacToeBoard.gameAreaController)
    /\ UNCHANGED <<listeners, ticTacToeArea, results, sortedStats>>

\* Variant: the squares are never disabled
SquareDisabled_Never(b) == FALSE

\* disabled={!gameIsOurTurn} on every square
SquareDisabled(b) == ~b.gameIsOurTurn

\* onClick of the square at (rowIndex, colIndex): the arguments it hands to
\* the click handler
OnClickArguments(rowIndex, colIndex) == <<rowIndex, colIndex>>

\* Variant: the toast does not carry the error's message
MoveErrorToast_NoMessage(message) == Toast("Error: ", "error")

\* The click handler's catch: one error toast carrying the error's message
MoveErrorToast(message) == Toast("Error: " \o message, "error")

\* The click handler up to its await: makeMove(row, col) on the rendered
\* controller; an error makeMove throws before it awaits is caught at once
HandleSquareClick(rowIndex, colIndex) ==
    LET c == ticTacToeBoard.gameAreaController
        args == OnClickArguments(rowIndex, colIndex)
        outcome == MakeMoveOutcome(ModelOf(c), InstanceIDOf(c), args[1], args[2])
    IN /\ ticTacToeBoard.mounted
       /\ ~SquareDisabled(ticTacToeBoard)
       /\ outcome.result = "ok" =>
              ticTacToeBoard.moving + orphaned.moves < MaxInFlight
       /\ IF c = 1 THEN MakeMove(args[1], args[2])
          ELSE /\ lastOp' = "makeMove"
               /\ lastArgs' = args
               /\ result' = outcome.result
               /\ sent' = outcome.sent
               /\ emitted' = <<>>
               /\ UNCHANGED <<model, instanceID, joinPending, lastSnapshot>>
       /\ lastController' = c
       /\ clicked' = <<rowIndex, colIndex>>
       /\ IF outcome.result = "ok"
          THEN /\ ticTacToeBoard' = [ticTacToeBoard EXCEPT !.moving = @ + 1]
               /\ toasts' = <<>>
          ELSE /\ ticTacToeBoard' = ticTacToeBoard
               /\ toasts' = <<MoveErrorToast(outcome.result)>>
       /\ UNCHANGED <<otherModel, otherInstanceID, listeners, ticTacToeArea,
                      orphaned, results, sortedStats>>

\* makeMove resumes with the transport's answer: nothing is stored, and a
\* rejection is thrown on to the click handler
MoveAnswered(op, answer) ==
    /\ lastOp' = op
    /\ lastArgs' = <<>>
    /\ result' = answer
    /\ sent' = <<>>
    /\ emitted' = <<>>
    /\ clicked' = <<>>
    /\ UNCHANGED <<model, instanceID, joinPending, lastSnapshot, otherModel,
                   otherInstanceID, lastController, listeners, ticTacToeArea,
                   results, sortedStats>>

\* The click handler after its await, the move having been accepted
MoveSucceeded ==
    /\ ticTacToeBoard.mounted
    /\ ticTacToeBoard.moving > 0
    /\ ticTacToeBoard' = [ticTacToeBoard EXCEPT !.moving = @ - 1]
    /\ toasts' = <<>>
    /\ MoveAnswered("moveAcknowledged", "ok")
    /\ UNCHANGED orphaned

\* The click handler after its await, the move having been rejected: catch
MoveFailed ==
    /\ ticTacToeBoard.mounted
    /\ ticTacToeBoard.moving > 0
    /\ ticTacToeBoard' = [ticTacToeBoard EXCEPT !.moving = @ - 1]
    /\ toasts' = <<MoveErrorToast(TRANSPORT_ERROR)>>
    /\ MoveAnswered("moveRejected", TRANSPORT_ERROR)
    /\ UNCHANGED orphaned

\* The click handler of an unmounted instance after its await, the move
\* having been accepted
OrphanedMoveSucceeded ==
    /\ orphaned.moves > 0
    /\ orphaned' = [orphaned EXCEPT !.moves = @ - 1]
    /\ toasts' = <<>>
    /\ MoveAnswered("moveAcknowledged", "ok")
    /\ UNCHANGED ticTacToeBoard

\* The click handler of an unmounted instance after its await, the move
\* having been rejected: the catch block shows its toast
OrphanedMoveFailed ==
    /\ orphaned.moves > 0
    /\ orphaned' = [orphaned EXCEPT !.moves = @ - 1]
    /\ toasts' = <<MoveErrorToast(TRANSPORT_ERROR)>>
    /\ MoveAnswered("moveRejected", TRANSPORT_ERROR)
    /\ UNCHANGED ticTacToeBoard

----------------------------------------------------------------------------
\* The controller as constructed for an area with no game yet

\* No component is mounted, no listener registered, nothing rendered; the
\* second controller holds no game either
InitPresentation ==
    /\ lastController = 1
    /\ otherModel = NoGame
    /\ otherInstanceID = Undefined
    /\ listeners = [c \in Controllers |-> <<>>]
    /\ ticTacToeBoard = BoardUnmounted("TicTacToeBoard.tsx", 0)
    /\ ticTacToeArea = AreaUnmounted(NoEffect)
    /\ orphaned = NoOrphans
    /\ toasts = <<>>
    /\ clicked = <<>>
    /\ results = <<>>
    /\ sortedStats = <<>>

Init ==
    /\ model = NoGame
    /\ instanceID = Undefined
    /\ joinPending = 0
    /\ lastOp = "constructor"
    /\ lastArgs = <<>>
    /\ lastSnapshot = NoGame
    /\ result = "ok"
    /\ sent = <<>>
    /\ emitted = <<>>
    /\ InitPresentation

Next ==
    \/ \E newModel \in PushedSnapshots :
           UpdateFrom(newModel) /\ UNCHANGED presentationVars
    \/ \E cell \in MoveCells :
           MakeMove(cell[1], cell[2]) /\ UNCHANGED presentationVars
    \/ JoinGame /\ UNCHANGED presentationVars
    \/ \E gameID \in GameIDs :
           JoinAcknowledged(gameID) /\ UNCHANGED presentationVars
    \/ JoinRejected /\ UNCHANGED presentationVars

Spec == Init /\ [][Next]_vars

----------------------------------------------------------------------------
\* The Area component observing the controllers

\* A game as the snapshot carries it
Game(status, x, o, moves, winner) ==
    [hasGame |-> TRUE, status |-> status, x |-> x, o |-> o, moves |-> moves,
     winner |-> winner]

\* The snapshots pushed to controller 1 while the Area is observed: a game
\* another player waits in, the game once the viewer has the O seat, and its
\* three endings
AreaSnapshots ==
    { Game("WAITING_TO_START", "p1", Undefined, <<>>, Undefined),
      Game("IN_PROGRESS", "p1", OurPlayer, <<>>, Undefined),
      Game("OVER", "p1", OurPlayer, <<>>, OurPlayer),
      Game("OVER", "p1", OurPlayer, <<>>, "p1"),
      Game("OVER", "p1", OurPlayer, <<>>, Undefined) }

\* The snapshots pushed to controller 2
OtherAreaSnapshots ==
    { Game("IN_PROGRESS", OurPlayer, "p1", <<>>, Undefined),
      Game("OVER", OurPlayer, "p1", <<>>, "p1") }

\* The session identifier the transport answers a JoinGame command with
AreaGameIDs == {"g1"}

NextArea ==
    \/ \E newModel \in AreaSnapshots : SnapshotPushed(1, newModel)
    \/ \E newModel \in OtherAreaSnapshots : SnapshotPushed(2, newModel)
    \/ \E c \in Controllers : MountArea(c)
    \/ FlushAreaEffects
    \/ SwapAreaController
    \/ UnmountArea
    \/ HandleJoinGame
    \/ \E gameID \in AreaGameIDs : JoinSucceeded(gameID)
    \/ JoinFailed
    \/ \E c \in Controllers, gameID \in AreaGameIDs : OrphanedJoinSucceeded(c, gameID)
    \/ \E c \in Controllers : OrphanedJoinFailed(c)

SpecArea == Init /\ [][NextArea]_vars

----------------------------------------------------------------------------
\* The board component observing the controllers

\* First move X at (0, 1), second move O at (1, 2)
OneMove == <<[gamePiece |-> "X", row |-> 0, col |-> 1]>>

TwoMoves == Append(OneMove, [gamePiece |-> "O", row |-> 1, col |-> 2])

\* The snapshots pushed to controller 1 while the board is observed: a game
\* the viewer plays as X after zero, one and two moves and once it is lost,
\* and the next game, which another player waits in
BoardSnapshots ==
    { Game("IN_PROGRESS", OurPlayer, "p1", <<>>, Undefined),
      Game("IN_PROGRESS", OurPlayer, "p1", OneMove, Undefined),
      Game("IN_PROGRESS", OurPlayer, "p1", TwoMoves, Undefined),
      Game("OVER", OurPlayer, "p1", TwoMoves, "p1"),
      Game("WAITING_TO_START", "p1", Undefined, <<>>, Undefined) }

\* The snapshot pushed to controller 2: a game the viewer plays as O
OtherBoardSnapshots ==
    { Game("IN_PROGRESS", "p1", OurPlayer, OneMove, Undefined) }

\* The controllers as the board component finds them: either may have joined
\* its game before; the component is built from either of its two sources
InitBoard ==
    /\ model = NoGame
    /\ instanceID \in {Undefined, "g1"}
    /\ joinPending = 0
    /\ lastOp = "constructor"
    /\ lastArgs = <<>>
    /\ lastSnapshot = NoGame
    /\ result = "ok"
    /\ sent = <<>>
    /\ emitted = <<>>
    /\ lastController = 1
    /\ otherModel = NoGame
    /\ otherInstanceID \in {Undefined, "g2"}
    /\ listeners = [c \in Controllers |-> <<>>]
    /\ \E source \in BoardSources : ticTacToeBoard = BoardUnmounted(source, 0)
    /\ ticTacToeArea = AreaUnmounted(NoEffect)
    /\ orphaned = NoOrphans
    /\ toasts = <<>>
    /\ clicked = <<>>
    /\ results = <<>>
    /\ sortedStats = <<>>

NextBoard ==
    \/ \E newModel \in BoardSnapshots : SnapshotPushed(1, newModel)
    \/ \E newModel \in OtherBoardSnapshots : SnapshotPushed(2, newModel)
    \/ \E c \in Controllers : MountBoard(c)
    \/ FlushBoardEffects
    \/ SwapBoardController
    \/ UnmountBoard
    \/ \E cell \in MoveCells : HandleSquareClick(cell[1], cell[2])
    \/ MoveSucceeded
    \/ MoveFailed
    \/ OrphanedMoveSucceeded
    \/ OrphanedMoveFailed

SpecBoard == InitBoard /\ [][NextBoard]_vars

----------------------------------------------------------------------------
\* The lifecycles of both components: mounts, effects, controller swaps and
\* unmounts, among the snapshots that re-render them

NextSubscriptions ==
    \/ \E newModel \in AreaSnapshots : SnapshotPushed(1, newModel)
    \/ \E newModel \in OtherAreaSnapshots : SnapshotPushed(2, newModel)
    \/ \E c \in Controllers : MountArea(c)
    \/ FlushAreaEffects
    \/ SwapAreaController
    \/ UnmountArea
    \/ \E c \in Controllers : MountBoard(c)
    \/ FlushBoardEffects
    \/ SwapBoardController
    \/ UnmountBoard

SpecSubscriptions == Init /\ [][NextSubscriptions]_vars

----------------------------------------------------------------------------
\* Properties

\* The notification `name` is among the events evs
Emits(evs, name) == \E i \in 1..Len(evs) : evs[i].name = name

\* The payloads of the notifications `name` among the events evs, in order
RECURSIVE PayloadsFrom(_, _, _)
PayloadsFrom(evs, name, i) ==
    IF i > Len(evs) THEN <<>>
    ELSE (IF evs[i].name = name THEN <<evs[i].payload>> ELSE <<>>) \o
         PayloadsFrom(evs, name, i + 1)

Payloads(evs, name) == PayloadsFrom(evs, name, 1)

\* The viewer holds one of the two seats of snapshot m
ViewerSeated(m) == m.hasGame /\ OurPlayer \in {m.x, m.o}

\* C1: makeMove fails with NO_GAME_IN_PROGRESS_ERROR, handing nothing to the
\* transport, whenever the status is WAITING_TO_START or OVER or no session
\* identifier is held.
C1_NoGameInProgress ==
    (/\ lastOp = "makeMove"
     /\ \/ Status(model) \in {"WAITING_TO_START", "OVER"}
        \/ instanceID = Undefined)
    => (result = NO_GAME_IN_PROGRESS_ERROR /\ sent = <<>>)

\* The two 3x3 boards differ in at least one of the 9 cells
SomeCellDiffers(previousBoard, newBoard) ==
    \E cell \in Positions \X Positions :
        newBoard[cell[1]][cell[2]] # previousBoard[cell[1]][cell[2]]

\* C2: applying a snapshot emits boardChanged if and only if the board derived
\* from the new snapshot differs from the board derived from the previous one
\* in at least one of the 9 cells.
C2_BoardChangedIffCellDiffers ==
    [][lastOp' = "updateFrom" =>
         (Emits(emitted', "boardChanged") <=>
            SomeCellDiffers(Board(model), Board(model')))]_vars

C2_Witness ==
    /\ lastOp = "updateFrom"
    /\ Emits(emitted, "boardChanged")
    /\ MoveCount(model) = 2

\* C3: applying a snapshot emits turnChanged if and only if isOurTurn after the
\* replacement differs from isOurTurn before it, and the payload is the new
\* isOurTurn value.
C3_TurnChangedIffTurnDiffers ==
    [][lastOp' = "updateFrom" =>
         /\ Emits(emitted', "turnChanged") <=>
                (IsOurTurn(model') # IsOurTurn(model))
         /\ \A i \in 1..Len(emitted') :
                emitted'[i].name = "turnChanged" =>
                    emitted'[i].payload = IsOurTurn(model')]_vars

C3_Witness ==
    /\ lastOp = "updateFrom"
    /\ Payloads(emitted, "turnChanged") = <<TRUE>>
    /\ IsOurTurn(model)

\* No two moves of the list target the same cell
DistinctCells(moves) ==
    \A i \in 1..Len(moves), j \in 1..Len(moves) :
        (i # j) => <<moves[i].row, moves[i].col>> # <<moves[j].row, moves[j].col>>

C5_WhoseTurnFollowsParity ==
    IF Status(model) = "IN_PROGRESS"
    THEN WhoseTurn(model) =
            (IF MoveCount(model) % 2 = 0 THEN X(model) ELSE O(model))
    ELSE WhoseTurn(model) = Undefined

C5_Witness ==
    /\ Status(model) = "IN_PROGRESS"
    /\ Len(model.moves) = 1
    /\ model.x = OurPlayer
    /\ WhoseTurn(model) = "p1"

\* C6: isOurTurn is true if and only if the status is IN_PROGRESS and the
\* viewer is the player in the seat whose turn it is; it is false for
\* WAITING_TO_START, for OVER and when no game exists.
C6_IsOurTurnIffViewersTurn ==
    IsOurTurn(model) <=>
        /\ model.hasGame
        /\ model.status = "IN_PROGRESS"
        /\ \/ MoveCount(model) % 2 = 0 /\ X(model) = OurPlayer
           \/ MoveCount(model) % 2 = 1 /\ O(model) = OurPlayer

C6_Witness ==
    /\ IsOurTurn(model)
    /\ model.o = OurPlayer
    /\ Len(model.moves) = 1

\* C7: with status IN_PROGRESS and a session identifier held, makeMove by a
\* viewer who holds neither seat fails with PLAYER_NOT_IN_GAME_ERROR and hands
\* nothing to the transport.
C7_UnseatedViewerCannotMove ==
    (/\ lastOp = "makeMove"
     /\ Status(model) = "IN_PROGRESS"
     /\ instanceID # Undefined
     /\ ~ViewerSeated(model))
    => (result = PLAYER_NOT_IN_GAME_ERROR /\ sent = <<>>)

C7_Witness ==
    /\ lastOp = "makeMove"
    /\ Status(model) = "IN_PROGRESS"
    /\ instanceID # Undefined
    /\ model.x = "p1"
    /\ ~ViewerSeated(model)
    /\ result = PLAYER_NOT_IN_GAME_ERROR

\* C8: with status IN_PROGRESS, a session identifier held and the viewer
\* seated, makeMove(row, col) hands exactly one GameMove command to the
\* transport: its gameID is the held session identifier, its piece the
\* viewer's, its row and col the arguments.
C8_MoveCommandSent ==
    (/\ lastOp = "makeMove"
     /\ Status(model) = "IN_PROGRESS"
     /\ instanceID # Undefined
     /\ ViewerSeated(model))
    => /\ result = "ok"
       /\ Len(sent) = 1
       /\ sent[1].type = "GameMove"
       /\ sent[1].gameID = instanceID
       /\ sent[1].move.gamePiece = (IF model.x = OurPlayer THEN "X" ELSE "O")
       /\ sent[1].move.row = lastArgs[1]
       /\ sent[1].move.col = lastArgs[2]

C8_Witness ==
    /\ lastOp = "makeMove"
    /\ Status(model) = "IN_PROGRESS"
    /\ instanceID = "g2"
    /\ model.o = OurPlayer
    /\ lastArgs = <<1, 2>>
    /\ Len(sent) = 1

\* An IN_PROGRESS game with no moves in which the viewer holds the X seat
EmptyGameAsX(m) ==
    /\ m.hasGame
    /\ m.status = "IN_PROGRESS"
    /\ m.moves = <<>>
    /\ m.x = OurPlayer

\* C9: in an IN_PROGRESS game with no moves and the viewer seated as X,
\* isOurTurn is true and a successful makeMove emits nothing; when a snapshot
\* of that game with exactly one move is applied next, isOurTurn is false and
\* over both steps turnChanged was emitted exactly once, with payload false.
C9_EchoedMoveEndsOurTurn ==
    [][/\ (EmptyGameAsX(model) /\ lastOp' = "makeMove" /\ result' = "ok")
          => (IsOurTurn(model) /\ emitted' = <<>> /\ IsOurTurn(model'))
       /\ (/\ EmptyGameAsX(model)
           /\ lastOp = "makeMove"
           /\ result = "ok"
           /\ lastOp' = "updateFrom"
           /\ Len(Moves(model')) = 1
           /\ model'.x = model.x
           /\ model'.o = model.o)
          => /\ Payloads(emitted \o emitted', "turnChanged") = <<FALSE>>
             /\ ~IsOurTurn(model')]_vars

C9_Witness ==
    /\ lastOp = "updateFrom"
    /\ instanceID # Undefined
    /\ model.hasGame
    /\ model.status = "IN_PROGRESS"
    /\ model.x = OurPlayer
    /\ Len(model.moves) = 1
    /\ Payloads(emitted, "turnChanged") = <<FALSE>>
    /\ ~IsOurTurn(model)

\* Every derived view of snapshot m
DerivedViews(m) ==
    [board |-> Board(m), moveCount |-> MoveCount(m), status |-> Status(m),
     whoseTurn |-> WhoseTurn(m), isOurTurn |-> IsOurTurn(m), x |-> X(m),
     o |-> O(m), winner |-> Winner(m)]

\* C10: after any sequence of snapshot applications every derived view equals
\* the value computed from the last snapshot applied alone.
C10_LastWriterWins ==
    /\ model = lastSnapshot
    /\ DerivedViews(model) = DerivedViews(lastSnapshot)

\* the last snapshot emptied a board that held moves before it
C10_Witness ==
    /\ lastOp = "updateFrom"
    /\ model = lastSnapshot
    /\ model.hasGame
    /\ model.status = "WAITING_TO_START"
    /\ MoveCount(model) = 0
    /\ Emits(emitted, "boardChanged")

----------------------------------------------------------------------------
\* Leaderboard

LeaderboardPlayers == {"A", "B", "C"}

Scores == 0..1

\* result.scores, an object whose keys keep their insertion order: the
\* [player, score] entries of one, two (either order) or three players
ScoreObjects ==
    { <<[player |-> p, score |-> s]>> : p \in LeaderboardPlayers, s \in Scores }
    \cup
    { <<[player |-> pq[1], score |-> st[1]], [player |-> pq[2], score |-> st[2]]>> :
        pq \in { x \in LeaderboardPlayers \X LeaderboardPlayers : x[1] # x[2] },
        st \in Scores \X Scores }
    \cup
    { <<[player |-> "A", score |-> sss[1]], [player |-> "B", score |-> sss[2]],
        [player |-> "C", score |-> sss[3]]>> : sss \in Scores \X Scores \X Scores }

\* Object.keys(scores)
Keys(scores) == [k \in 1..Len(scores) |-> scores[k].player]

\* scores[player]
ScoreOf(scores, player) ==
    scores[CHOOSE k \in 1..Len(scores) : scores[k].player = player].score

\* Variant: equal scores are counted as a loss
Credit_TieAsLoss(currentStats, playerScore, opponentScore) ==
    IF playerScore > opponentScore
    THEN [currentStats EXCEPT !.wins = @ + 1]
    ELSE [currentStats EXCEPT !.losses = @ + 1]

\* One comparison of the player's score with an opponent's
Credit(currentStats, playerScore, opponentScore) ==
    IF playerScore > opponentScore
    THEN [currentStats EXCEPT !.wins = @ + 1]
    ELSE IF playerScore < opponentScore
    THEN [currentStats EXCEPT !.losses = @ + 1]
    ELSE [currentStats EXCEPT !.ties = @ + 1]

\* players.forEach(opponent => ...) from the j-th key on
RECURSIVE CompareWithOpponents(_, _, _, _, _)
CompareWithOpponents(currentStats, player, scores, players, j) ==
    IF j > Len(players) THEN currentStats
    ELSE LET opponent == players[j]
         IN CompareWithOpponents(
                IF player # opponent
                THEN Credit(currentStats, ScoreOf(scores, player),
                            ScoreOf(scores, opponent))
                ELSE currentStats,
                player, scores, players, j + 1)

\* Variant: the row kept for the player is not looked up
StatsMapGet_AlwaysFresh(statsMap, player) ==
    [name |-> player, wins |-> 0, losses |-> 0, ties |-> 0]

\* statsMap.get(player) || { name: player, wins: 0, losses: 0, ties: 0 };
\* statsMap is a Map, here its values in insertion order
StatsMapGet(statsMap, player) ==
    IF \E k \in 1..Len(statsMap) : statsMap[k].name = player
    THEN statsMap[CHOOSE k \in 1..Len(statsMap) : statsMap[k].name = player]
    ELSE [name |-> player, wins |-> 0, losses |-> 0, ties |-> 0]

\* statsMap.set(player, currentStats): a new key is added last
StatsMapSet(statsMap, player, currentStats) ==
    IF \E k \in 1..Len(statsMap) : statsMap[k].name = player
    THEN [k \in 1..Len(statsMap) |->
              IF statsMap[k].name = player THEN currentStats ELSE statsMap[k]]
    ELSE Append(statsMap, currentStats)

\* players.forEach(player => ...) from the i-th key on
RECURSIVE TallyPlayers(_, _, _, _)
TallyPlayers(statsMap, scores, players, i) ==
    IF i > Len(players) THEN statsMap
    ELSE LET player == players[i]
             currentStats == StatsMapGet(statsMap, player)
         IN TallyPlayers(
                StatsMapSet(statsMap, player,
                            CompareWithOpponents(currentStats, player, scores,
                                                 players, 1)),
                scores, players, i + 1)

\* results.forEach(result => ...) from the k-th result on
RECURSIVE TallyResults(_, _, _)
TallyResults(statsMap, rs, k) ==
    IF k > Len(rs) THEN statsMap
    ELSE TallyResults(TallyPlayers(statsMap, rs[k], Keys(rs[k]), 1), rs, k + 1)

\* Variant: the comparator orders by ascending wins
CompareStats_Ascending(a, b) == a.wins - b.wins

\* The sort's comparator: positive when a goes after b
CompareStats(a, b) == b.wins - a.wins

\* Array.prototype.sort, which is stable: row goes before the first row from
\* index i on that the comparator puts after it
RECURSIVE InsertSorted(_, _, _)
InsertSorted(sorted, row, i) ==
    IF i > Len(sorted) THEN Append(sorted, row)
    ELSE IF CompareStats(sorted[i], row) > 0
    THEN SubSeq(sorted, 1, i - 1) \o <<row>> \o SubSeq(sorted, i, Len(sorted))
    ELSE InsertSorted(sorted, row, i + 1)

RECURSIVE SortFrom(_, _, _)
SortFrom(sorted, rows, i) ==
    IF i > Len(rows) THEN sorted
    ELSE SortFrom(InsertSorted(sorted, rows[i], 1), rows, i + 1)

\* Leaderboard({results}): the rows of the table, top first
Leaderboard(rs) == SortFrom(<<>>, TallyResults(<<>>, rs, 1), 1)

\* The Area renders the Leaderboard with a history one result longer
RenderLeaderboard(gameResult) ==
    /\ Len(results) < MaxResults
    /\ results' = Append(results, gameResult)
    /\ sortedStats' = Leaderboard(results')
    /\ UNCHANGED <<model, instanceID, joinPending, lastOp, lastArgs,
                   lastSnapshot, result, sent, emitted, lastController,
                   otherModel, otherInstanceID, listeners, ticTacToeBoard,
                   ticTacToeArea, orphaned, toasts, clicked>>

NextLeaderboard == \E scores \in ScoreObjects : RenderLeaderboard(scores)

SpecLeaderboard == Init /\ [][NextLeaderboard]_vars

----------------------------------------------------------------------------
\* Properties of the presentation components

\* The terminal message for a game that ended with `winner`
TerminalMessage(winner) ==
    IF winner = Undefined THEN "Game ended in a tie"
    ELSE IF winner = OurPlayer THEN "You won!"
    ELSE "You lost :("

\* `component` has a listener for `event` registered on controller c
Listens(component, c, event) ==
    \E i \in 1..Len(listeners[c]) :
        /\ listeners[c][i].component = component
        /\ listeners[c][i].event = event

\* C11: on every gameEnd notification of the controller the mounted Area
\* listens to, the Area shows exactly one terminal message, the one matching
\* the winner recorded in the snapshot that ended the game.
C11_GameEndMessageMatchesWinner ==
    (/\ lastOp = "updateFrom"
     /\ Emits(emitted, "gameEnd")
     /\ ticTacToeArea.mounted
     /\ Listens("TicTacToeArea", lastController, "gameEnd"))
    => /\ Len(toasts) = 1
       /\ toasts[1].description = TerminalMessage(ModelOf(lastController).winner)

\* The board instance is mounted and the effect in force has installed its
\* listeners on the controller it observes
BoardListening(b) == b.mounted /\ b.effect = b.gameAreaController

\* C12: while the board component is mounted with its listeners installed on
\* a controller, after every completed snapshot application of that controller
\* its local board equals the controller's board in all 9 cells and its local
\* turn flag equals the controller's isOurTurn.
C12_LocalCopiesFollowController ==
    (/\ lastOp = "updateFrom"
     /\ BoardListening(ticTacToeBoard)
     /\ lastController = ticTacToeBoard.gameAreaController)
    => /\ \A cell \in Positions \X Positions :
              ticTacToeBoard.gameBoard[cell[1]][cell[2]] =
                  Board(ModelOf(lastController))[cell[1]][cell[2]]
       /\ ticTacToeBoard.gameIsOurTurn = IsOurTurn(ModelOf(lastController))

\* The listeners `component` has registered for `event` on controller c
ListenerCount(c, component, event) ==
    Cardinality({ i \in 1..Len(listeners[c]) :
                    /\ listeners[c][i].component = component
                    /\ listeners[c][i].event = event })

\* The events each component listens to
ComponentEvents ==
    { <<"TicTacToeBoard", "boardChanged">>, <<"TicTacToeBoard", "turnChanged">>,
      <<"TicTacToeArea", "gameUpdated">>, <<"TicTacToeArea", "gameEnd">> }

\* The controller the component observes, 0 when it is not mounted
Observed(component) ==
    IF component = "TicTacToeBoard"
    THEN (IF ticTacToeBoard.mounted THEN ticTacToeBoard.gameAreaController ELSE 0)
    ELSE (IF ticTacToeArea.mounted THEN ticTacToeArea.gameAreaController ELSE 0)

\* The effects and cleanups of the component's last render or unmount have run
EffectsRun(component) ==
    IF component = "TicTacToeBoard"
    THEN ~BoardEffectPending(ticTacToeBoard)
    ELSE ~AreaEffectPending(ticTacToeArea)

\* C13: through every sequence of mounts, re-renders, controller swaps and
\* unmounts a component has at most one listener per event name registered,
\* and once the effects of its unmount or controller swap have run none of its
\* listeners remains on a controller it does not observe.
C13_SubscriptionLifetime ==
    \A ce \in ComponentEvents :
        /\ ListenerCount(1, ce[1], ce[2]) + ListenerCount(2, ce[1], ce[2]) <= 1
        /\ EffectsRun(ce[1]) =>
               \A c \in Controllers :
                   c # Observed(ce[1]) => ListenerCount(c, ce[1], ce[2]) = 0

\* the Area re-subscribed on controller 2 after a swap that followed a won
\* game on controller 1, and the board's cleanup ran after its unmount
C13_Witness ==
    /\ ticTacToeArea.mounted
    /\ ticTacToeArea.gameAreaController = 2
    /\ ticTacToeArea.effect =
           [installed |-> TRUE, gameAreaController |-> 2, winner |-> OurPlayer]
    /\ ListenerCount(2, "TicTacToeArea", "gameEnd") = 1
    /\ ListenerCount(1, "TicTacToeArea", "gameEnd") = 0
    /\ ~ticTacToeBoard.mounted
    /\ lastOp = "flushBoardEffects"
    /\ \A c \in Controllers : ListenerCount(c, "TicTacToeBoard", "turnChanged") = 0

\* C14: a board cell is interactive only when the local turn flag is true;
\* every move request originating from the board is issued while that flag is
\* true and carries exactly the row and column of the clicked cell.
C14_MovesOnlyOnOurTurn ==
    [][/\ (ticTacToeBoard'.mounted /\ ~SquareDisabled(ticTacToeBoard'))
              => ticTacToeBoard'.gameIsOurTurn
       /\ lastOp' = "makeMove" <=> clicked' # <<>>
       /\ clicked' # <<>> =>
              /\ ticTacToeBoard.mounted
              /\ ticTacToeBoard.gameIsOurTurn
              /\ lastArgs' = clicked'
              /\ \A i \in 1..Len(sent') :
                     /\ sent'[i].type = "GameMove"
                     /\ sent'[i].move.row = clicked'[1]
                     /\ sent'[i].move.col = clicked'[2]]_vars

C14_Witness ==
    /\ clicked = <<1, 2>>
    /\ lastOp = "makeMove"
    /\ result = "ok"
    /\ ticTacToeBoard.gameIsOurTurn
    /\ ticTacToeBoard.moving = 1
    /\ Len(sent) = 1
    /\ sent[1].move.row = 1
    /\ sent[1].move.col = 2

\* The last handler was a cell click's move request failing: makeMove threw
\* before it awaited, or the transport rejected the command
MoveRequestFailed(op, outcome) ==
    \/ op = "makeMove" /\ outcome # "ok"
    \/ op = "moveRejected"

\* C15: every failure of a move request issued from a cell click
\* (NO_GAME_IN_PROGRESS_ERROR, PLAYER_NOT_IN_GAME_ERROR or a transport
\* rejection) is caught in the click handler and produces exactly one error
\* notification carrying the failure's message; the local board and turn flag
\* are left unchanged.
C15_MoveFailureIsNotified ==
    [][MoveRequestFailed(lastOp', result') =>
         /\ result' \in {NO_GAME_IN_PROGRESS_ERROR, PLAYER_NOT_IN_GAME_ERROR,
                        TRANSPORT_ERROR}
         /\ toasts' = <<[description |-> "Error: " \o result', status |-> "error"]>>
         /\ ticTacToeBoard'.gameBoard = ticTacToeBoard.gameBoard
         /\ ticTacToeBoard'.gameIsOurTurn = ticTacToeBoard.gameIsOurTurn
         /\ ticTacToeBoard'.mounted = ticTacToeBoard.mounted]_vars

\* a click on a stale board: the viewer holds no seat of the controller's game
C15_Witness ==
    /\ lastOp = "makeMove"
    /\ clicked = <<0, 1>>
    /\ result = PLAYER_NOT_IN_GAME_ERROR
    /\ toasts = <<[description |-> "Error: Player is not in game", status |-> "error"]>>
    /\ ticTacToeBoard.gameIsOurTurn

\* C16: in no state is the join button shown while the game of the observed
\* controller is IN_PROGRESS or while the viewer is a player of that game.
C16_JoinOnlyWhenJoinable ==
    JoinButtonShown(ticTacToeArea) =>
        LET m == ModelOf(ticTacToeArea.gameAreaController)
        IN /\ Status(m) \in {"WAITING_TO_START", "OVER"}
           /\ ~ViewerSeated(m)

OrphanedRequests(o) == o.moves + o.joins[1] + o.joins[2]

\* C18: when a join or move request resolves after the component that issued
\* it has unmounted, the resolution is discarded: no local state is updated
\* and nothing else is done on the unmounted component's behalf.
C18_UnmountedResultDiscarded ==
    [][OrphanedRequests(orphaned') < OrphanedRequests(orphaned) =>
         /\ toasts' = <<>>
         /\ ticTacToeArea' = ticTacToeArea
         /\ ticTacToeBoard' = ticTacToeBoard]_vars

----------------------------------------------------------------------------
\* Properties of the Leaderboard

\* The players appearing in some result of rs
Appearing(rs) ==
    UNION { { rs[k][i].player : i \in 1..Len(rs[k]) } : k \in 1..Len(rs) }

\* The (result, player, opponent) places of rs where the player is p and
\* the opponent is another player of the same result
Pairings(rs, p) ==
    { kij \in (1..Len(rs)) \X (1..3) \X (1..3) :
        /\ kij[2] <= Len(rs[kij[1]])
        /\ kij[3] <= Len(rs[kij[1]])
        /\ kij[2] # kij[3]
        /\ rs[kij[1]][kij[2]].player = p }

OpponentsBelow(rs, p) ==
    Cardinality({ kij \in Pairings(rs, p) :
        rs[kij[1]][kij[3]].score < rs[kij[1]][kij[2]].score })

OpponentsAbove(rs, p) ==
    Cardinality({ kij \in Pairings(rs, p) :
        rs[kij[1]][kij[3]].score > rs[kij[1]][kij[2]].score })

OpponentsLevel(rs, p) ==
    Cardinality({ kij \in Pairings(rs, p) :
        rs[kij[1]][kij[3]].score = rs[kij[1]][kij[2]].score })

Row(name, wins, losses, ties) ==
    [name |-> name, wins |-> wins, losses |-> losses, ties |-> ties]

Rows == { sortedStats[r] : r \in 1..Len(sortedStats) }

Scored(p, s) == [player |-> p, score |-> s]

\* C19: every row's wins, losses and ties are the numbers of opponents, over
\* all results and all other players of the same result, with a strictly
\* lower, a strictly higher and an equal score; [{A:1,B:0}] gives A 1/0/0 and
\* B 0/1/0, and [{A:1,B:1}] gives both players 0/0/1.
C19_PairwiseAccounting ==
    /\ \A row \in Rows :
          /\ row.wins = OpponentsBelow(results, row.name)
          /\ row.losses = OpponentsAbove(results, row.name)
          /\ row.ties = OpponentsLevel(results, row.name)
    /\ results = << <<Scored("A", 1), Scored("B", 0)>> >>
          => Rows = {Row("A", 1, 0, 0), Row("B", 0, 1, 0)}
    /\ results = << <<Scored("A", 1), Scored("B", 1)>> >>
          => Rows = {Row("A", 0, 0, 1), Row("B", 0, 0, 1)}

\* A tie of A and B followed by a three-player result that C wins
C19_Witness ==
    /\ results = << <<Scored("A", 1), Scored("B", 1)>>,
                    <<Scored("A", 0), Scored("B", 0), Scored("C", 1)>> >>
    /\ Rows = {Row("C", 2, 0, 0), Row("A", 0, 1, 2), Row("B", 0, 1, 2)}

\* C20: the table has exactly one row per player appearing in any result, a
\* player alone in a result included, and wins never increase down the rows.
C20_OneRowPerPlayerByWins ==
    /\ { sortedStats[r].name : r \in 1..Len(sortedStats) } = Appearing(results)
    /\ \A r1, r2 \in 1..Len(sortedStats) :
          sortedStats[r1].name = sortedStats[r2].name => r1 = r2
    /\ \A r \in 1..(Len(sortedStats) - 1) :
          sortedStats[r].wins >= sortedStats[r + 1].wins

\* C alone in the first result, then B beats A: B rises above both
C20_Witness ==
    /\ results = << <<Scored("C", 1)>>, <<Scored("A", 0), Scored("B", 1)>> >>
    /\ sortedStats = <<Row("B", 1, 0, 0), Row("C", 0, 0, 0), Row("A", 0, 1, 0)>>

----------------------------------------------------------------------------
\* Further properties of the controller

\* C21: gamePiece is 'X' exactly when the viewer holds the X seat, 'O' exactly
\* when the viewer holds the O seat, and fails with PLAYER_NOT_IN_GAME_ERROR
\* in every state where the viewer holds neither seat.
C21_GamePieceIsTheViewersSeat ==
    /\ GamePiece(model) = "X" <=> (model.hasGame /\ model.x = OurPlayer)
    /\ GamePiece(model) = "O" <=> (model.hasGame /\ model.o = OurPlayer)
    /\ ~ViewerSeated(model) => GamePiece(model) = PLAYER_NOT_IN_GAME_ERROR

\* a game only another player is seated in was applied and the viewer's move
\* request failed on the getter
C21_Witness ==
    /\ lastOp = "makeMove"
    /\ model.hasGame
    /\ model.x = "p1"
    /\ model.o = Undefined
    /\ instanceID # Undefined
    /\ GamePiece(model) = PLAYER_NOT_IN_GAME_ERROR
    /\ result = PLAYER_NOT_IN_GAME_ERROR

\* Both components observing the controllers while the viewer joins a game
\* and plays it: snapshots, mounts, effects, the join button and cell clicks
NextRequests ==
    \/ \E newModel \in BoardSnapshots : SnapshotPushed(1, newModel)
    \/ \E newModel \in OtherBoardSnapshots : SnapshotPushed(2, newModel)
    \/ \E c \in Controllers : MountArea(c)
    \/ FlushAreaEffects
    \/ HandleJoinGame
    \/ \E gameID \in AreaGameIDs : JoinSucceeded(gameID)
    \/ JoinFailed
    \/ \E c \in Controllers : MountBoard(c)
    \/ FlushBoardEffects
    \/ \E cell \in MoveCells : HandleSquareClick(cell[1], cell[2])
    \/ MoveSucceeded
    \/ MoveFailed

SpecRequests == Init /\ [][NextRequests]_vars

\* The views of the claim, derived from snapshot m
WatchedViews(m) ==
    [board |-> Board(m), moveCount |-> MoveCount(m), status |-> Status(m),
     isOurTurn |-> IsOurTurn(m)]

\* C22: only snapshot application writes the held snapshot.  A makeMove call,
\* successful or failing, a join call, a board click, the completion of a
\* request and every other step that is not a snapshot application leave both
\* controllers' snapshots and derived views unchanged and emit no boardChanged
\* or turnChanged; the local board of the component is not updated by a click
\* either; and once a snapshot application has delivered its notifications
\* the controller holds the snapshot that was applied, the other controller's
\* snapshot being untouched.
C22_OnlySnapshotsWriteTheSnapshot ==
    [][/\ lastOp' # "updateFrom" =>
              /\ model' = model
              /\ otherModel' = otherModel
              /\ WatchedViews(model') = WatchedViews(model)
              /\ WatchedViews(otherModel') = WatchedViews(otherModel)
              /\ ~Emits(emitted', "boardChanged")
              /\ ~Emits(emitted', "turnChanged")
       /\ lastOp' = "makeMove" =>
              /\ ticTacToeBoard'.gameBoard = ticTacToeBoard.gameBoard
              /\ ticTacToeBoard'.gameIsOurTurn = ticTacToeBoard.gameIsOurTurn
       /\ lastOp' = "updateFrom" =>
              IF lastController' = 1
              THEN model' = lastSnapshot' /\ otherModel' = otherModel
              ELSE model' = model]_vars

\* a click on an empty cell handed a move to the transport, and the cell is
\* still empty in the controller's board and in the local board
C22_Witness ==
    /\ lastOp = "makeMove"
    /\ result = "ok"
    /\ clicked = <<1, 2>>
    /\ Len(sent) = 1
    /\ lastController = 1
    /\ Board(model)[1][2] = Undefined
    /\ ticTacToeBoard.gameBoard[1][2] = Undefined
    /\ ticTacToeArea.mounted

\* C23: after every gameUpdated notification the mounted Area has handled,
\* each of its local display values (history, observers, X player, O player,
\* move count, whose-turn, is-player, status, winner) equals the current
\* value of the controller that emitted the notification.
C23_DisplayRefreshedInOneBatch ==
    (/\ lastOp = "updateFrom"
     /\ Emits(emitted, "gameUpdated")
     /\ ticTacToeArea.mounted
     /\ Listens("TicTacToeArea", lastController, "gameUpdated"))
    => LET m == ModelOf(lastController)
           d == ticTacToeArea.display
       IN /\ d.history = History(m)
          /\ d.observers = Observers(m)
          /\ d.xPlayer = X(m)
          /\ d.oPlayer = O(m)
          /\ d.moveCount = MoveCount(m)
          /\ d.whoseTurn = WhoseTurn(m)
          /\ d.isPlayer = IsPlayer(m)
          /\ d.status = Status(m)
          /\ d.winner = Winner(m)

\* the game the viewer played as O ended, lost, and the listening Area shows
\* the winner, the result in the history and no observers
C23_Witness ==
    /\ lastOp = "updateFrom"
    /\ lastController = 1
    /\ Emits(emitted, "gameEnd")
    /\ ticTacToeArea.mounted
    /\ Listens("TicTacToeArea", 1, "gameUpdated")
    /\ ticTacToeArea.display.status = "OVER"
    /\ ticTacToeArea.display.winner = "p1"
    /\ ticTacToeArea.display.observers = <<>>
    /\ Len(ticTacToeArea.display.history) = 1
    /\ ticTacToeArea.display.isPlayer

\* C24: status is the snapshot's status when a game exists and
\* WAITING_TO_START when no game exists, and isActive() is true if and only
\* if that status is IN_PROGRESS.
C24_StatusAndIsActive ==
    /\ model.hasGame => Status(model) = model.status
    /\ ~model.hasGame => Status(model) = "WAITING_TO_START"
    /\ IsActive(model) <=> Status(model) = "IN_PROGRESS"

\* the game was removed from the area while it was in progress: the status
\* falls back to WAITING_TO_START
C24_Witness ==
    /\ lastOp = "updateFrom"
    /\ ~model.hasGame
    /\ Emits(emitted, "turnChanged")
    /\ Status(model) = "WAITING_TO_START"
    /\ ~IsActive(model)

\* Move histories the authority is not expected to send: any pieces in any
\* order, a cell targeted any number of times
ConflictingMoveLists ==
    UNION { [1..n -> { [gamePiece |-> piece, row |-> cell[1], col |-> cell[2]] :
                         piece \in Pieces, cell \in MoveCells }] :
            n \in 0..MaxHistory }

\* The snapshots that carry them: a game in progress with the viewer as X
ConflictingSnapshots ==
    { Game("IN_PROGRESS", OurPlayer, "p1", moves, Undefined) :
        moves \in ConflictingMoveLists }

NextDerivation ==
    \E newModel \in ConflictingSnapshots :
        UpdateFrom(newModel) /\ UNCHANGED presentationVars

SpecDerivation == Init /\ [][NextDerivation]_vars

\* The indices of the moves that target the cell (r, c)
Targeting(moves, r, c) ==
    { i \in 1..Len(moves) : moves[i].row = r /\ moves[i].col = c }

\* The largest element of a non-empty set of indices
Last(indices) == CHOOSE i \in indices : \A j \in indices : j <= i

\* C25: for any move list, of any length, with repeated cells and pieces that
\* do not alternate, the board is a 3x3 grid of cells, and each cell holds the
\* piece of the last move in list order that targets it, or is empty if no
\* move targets it.
C25_BoardTotalOnConflictingHistories ==
    LET moves == Moves(model)
        board == Board(model)
    IN /\ DOMAIN board = Positions
       /\ \A r \in Positions :
              /\ DOMAIN board[r] = Positions
              /\ \A c \in Positions :
                     /\ board[r][c] \in TicTacToeCell
                     /\ board[r][c] =
                            IF Targeting(moves, r, c) = {} THEN Undefined
                            ELSE moves[Last(Targeting(moves, r, c))].gamePiece

\* X twice in a row, then O on the cell X took first
C25_Witness ==
    /\ lastOp = "updateFrom"
    /\ model.moves = << [gamePiece |-> "X", row |-> 0, col |-> 1],
                        [gamePiece |-> "X", row |-> 1, col |-> 2],
                        [gamePiece |-> "O", row |-> 0, col |-> 1] >>
    /\ Board(model)[0][1] = "O"
    /\ Board(model)[1][2] = "X"
    /\ Emits(emitted, "boardChanged")

\* C26: makeMove does not serialize overlapping calls.  A cell click that
\* follows a move request still awaiting the transport's answer, no snapshot
\* having been applied in between, hands a second GameMove command to the
\* transport, for the same game and with the same piece, so that two move
\* requests of the viewer are in flight at once.
C26_OverlappingMovesBothSent ==
    [][(/\ lastOp = "makeMove"
        /\ result = "ok"
        /\ ticTacToeBoard.moving > 0
        /\ clicked' # <<>>)
       => /\ result' = "ok"
          /\ Len(sent') = 1
          /\ sent'[1].type = "GameMove"
          /\ sent'[1].gameID = sent[1].gameID
          /\ sent'[1].move.gamePiece = sent[1].move.gamePiece
          /\ ticTacToeBoard'.moving = ticTacToeBoard.moving + 1]_vars

\* the second of two clicks, on another cell, with the first still unanswered
C26_Witness ==
    /\ lastOp = "makeMove"
    /\ result = "ok"
    /\ clicked = <<1, 2>>
    /\ ticTacToeBoard.mounted
    /\ ticTacToeBoard.gameIsOurTurn
    /\ ticTacToeBoard.moving = 2
    /\ orphaned.moves = 0
    /\ Len(sent) = 1
    /\ lastController = 1

\* The boardChanged and turnChanged notifications among evs, in order
RECURSIVE ChangeEventsFrom(_, _)
ChangeEventsFrom(evs, i) ==
    IF i > Len(evs) THEN <<>>
    ELSE (IF evs[i].name \in {"boardChanged", "turnChanged"}
          THEN <<evs[i].name>> ELSE <<>>) \o ChangeEventsFrom(evs, i + 1)

\* The last snapshot application emitted `event` and the mounted board
\* component's listener for it was registered on that controller
Heard(event) ==
    /\ lastOp = "updateFrom"
    /\ Emits(emitted, event)
    /\ ticTacToeBoard.mounted
    /\ Listens("TicTacToeBoard", lastController, event)

\* C27: in every snapshot application boardChanged and turnChanged are
\* emitted after the held snapshot has been replaced: their payloads are the
\* new snapshot's board and isOurTurn, and a listener that reads the
\* controller's board or isOurTurn during the notification gets those same
\* values; boardChanged comes before turnChanged, each at most once.
C27_EmittedAfterReplacement ==
    lastOp = "updateFrom" =>
        LET m == ModelOf(lastController)
        IN /\ ChangeEventsFrom(emitted, 1) \in
                  { <<>>, <<"boardChanged">>, <<"turnChanged">>,
                    <<"boardChanged", "turnChanged">> }
           /\ \A i \in 1..Len(emitted) :
                  /\ emitted[i].name = "boardChanged" => emitted[i].payload = Board(m)
                  /\ emitted[i].name = "turnChanged" => emitted[i].payload = IsOurTurn(m)
           /\ Heard("boardChanged") =>
                  /\ ticTacToeBoard.gameBoard = Board(m)
                  /\ <<ticTacToeBoard.gameBoard>> = Payloads(emitted, "boardChanged")
           /\ Heard("turnChanged") =>
                  /\ ticTacToeBoard.gameIsOurTurn = IsOurTurn(m)
                  /\ <<ticTacToeBoard.gameIsOurTurn>> = Payloads(emitted, "turnChanged")

\* the opponent's move arrived: both notifications, in order, heard by the
\* board component, whose copies show the new move and the viewer's turn
C27_Witness ==
    /\ lastOp = "updateFrom"
    /\ lastController = 2
    /\ ChangeEventsFrom(emitted, 1) = <<"boardChanged", "turnChanged">>
    /\ Heard("boardChanged")
    /\ Heard("turnChanged")
    /\ ticTacToeBoard.gameBoard[0][1] = "X"
    /\ ticTacToeBoard.gameIsOurTurn

\* C28: in every reachable controller state isOurTurn implies that the status
\* is IN_PROGRESS, that the viewer is a player of the game and that the
\* viewer's piece is X when the move count is even and O when it is odd;
\* hence a move requested while isOurTurn is true never fails with
\* PLAYER_NOT_IN_GAME_ERROR.
C28_OurTurnImpliesSeatedOnParity ==
    IsOurTurn(model) =>
        /\ Status(model) = "IN_PROGRESS"
        /\ IsPlayer(model)
        /\ GamePiece(model) = (IF MoveCount(model) % 2 = 0 THEN "X" ELSE "O")
        /\ lastOp = "makeMove" => result # PLAYER_NOT_IN_GAME_ERROR

\* the viewer, seated as O with no X player, moved after one move
C28_Witness ==
    /\ lastOp = "makeMove"
    /\ IsOurTurn(model)
    /\ model.o = OurPlayer
    /\ model.x = Undefined
    /\ MoveCount(model) = 1
    /\ instanceID # Undefined
    /\ result = "ok"
    /\ sent[1].move.gamePiece = "O"

----------------------------------------------------------------------------
\* Further properties of the board component

\* The local copies of board instance b equal the views derived from m
LocalCopiesMatch(b, m) ==
    /\ \A cell \in Positions \X Positions :
           b.gameBoard[cell[1]][cell[2]] = Board(m)[cell[1]][cell[2]]
    /\ b.gameIsOurTurn = IsOurTurn(m)

\* C29: when the board component's controller is swapped for another
\* controller instance, then as soon as the swap completes, the effect having
\* moved the listeners to the new controller, the local board and turn flag
\* equal the new controller's board and isOurTurn, no notification of the new
\* controller having been awaited.
C29_SwapReseedsLocalCopies ==
    [][(/\ lastOp' = "flushBoardEffects"
        /\ ticTacToeBoard.mounted
        /\ ticTacToeBoard.effect # 0
        /\ ticTacToeBoard.effect # ticTacToeBoard.gameAreaController)
       => LocalCopiesMatch(ticTacToeBoard',
                           ModelOf(ticTacToeBoard'.gameAreaController))]_vars

\* C30: no snapshot application is missed at mount: once the listeners of a
\* newly mounted board component are installed, its local board and turn flag
\* equal the controller's board and isOurTurn, also when a snapshot was
\* applied after the first render had seeded them.
C30_NoSnapshotMissedAtMount ==
    [][(/\ lastOp' = "flushBoardEffects"
        /\ ticTacToeBoard.mounted
        /\ ticTacToeBoard.effect = 0)
       => LocalCopiesMatch(ticTacToeBoard',
                           ModelOf(ticTacToeBoard'.gameAreaController))]_vars

\* The snapshot controller c holds after the step
ModelAfter(c) == IF c = 1 THEN model' ELSE otherModel'

\* C31: once a snapshot whose status is OVER or WAITING_TO_START has been
\* applied to the controller the board component is subscribed to, the local
\* turn flag is false and every cell is disabled; a false turn flag of the
\* mounted component becomes true only by a snapshot application that makes
\* the controller's isOurTurn true; and no move request originates from the
\* board while the flag is false.
C31_NoMovesOnceGameIsNotInProgress ==
    [][/\ (/\ lastOp' = "updateFrom"
           /\ Status(ModelAfter(lastController')) \in {"OVER", "WAITING_TO_START"}
           /\ BoardListening(ticTacToeBoard')
           /\ lastController' = ticTacToeBoard'.gameAreaController)
          => /\ ~ticTacToeBoard'.gameIsOurTurn
             /\ SquareDisabled(ticTacToeBoard')
       /\ (/\ ticTacToeBoard.mounted
           /\ ~ticTacToeBoard.gameIsOurTurn
           /\ ticTacToeBoard'.mounted
           /\ ticTacToeBoard'.gameIsOurTurn)
          => /\ lastOp' = "updateFrom"
             /\ IsOurTurn(ModelAfter(lastController'))
       /\ (ticTacToeBoard.mounted /\ ~ticTacToeBoard.gameIsOurTurn)
          => (clicked' = <<>> /\ lastOp' # "makeMove")]_vars

----------------------------------------------------------------------------
\* Further properties of the Leaderboard

\* The sums of the wins, losses and ties of the rows from index r on
RECURSIVE TotalsFrom(_, _)
TotalsFrom(rows, r) ==
    IF r > Len(rows) THEN [wins |-> 0, losses |-> 0, ties |-> 0]
    ELSE LET rest == TotalsFrom(rows, r + 1)
         IN [wins |-> rows[r].wins + rest.wins,
             losses |-> rows[r].losses + rest.losses,
             ties |-> rows[r].ties + rest.ties]

\* The number of results of rs that player p appears in
Appearances(rs, p) ==
    Cardinality({ k \in 1..Len(rs) :
                    \E i \in 1..Len(rs[k]) : rs[k][i].player = p })

\* C32: for every list of results the wins of all rows sum to the losses of
\* all rows and the ties of all rows sum to an even number; when every result
\* has exactly two players, each row's wins + losses + ties is the number of
\* results its player appears in.
C32_LeaderboardConservation ==
    LET totals == TotalsFrom(sortedStats, 1)
    IN /\ totals.wins = totals.losses
       /\ totals.ties % 2 = 0
       /\ (\A k \in 1..Len(results) : Len(results[k]) = 2) =>
              \A row \in Rows :
                  row.wins + row.losses + row.ties = Appearances(results, row.name)

\* A beat B, then B and C tied: one win, one loss, two ties, and B appears
\* in both results
C32_Witness ==
    /\ results = << <<Scored("A", 1), Scored("B", 0)>>,
                    <<Scored("B", 1), Scored("C", 1)>> >>
    /\ Rows = {Row("A", 1, 0, 0), Row("B", 0, 1, 1), Row("C", 0, 0, 1)}
    /\ TotalsFrom(sortedStats, 1) = [wins |-> 1, losses |-> 1, ties |-> 2]

====
